---- MODULE Spec2Model ----
(***************************************************************************)
(* Model of foremost-parser's durable store (images, files, hash index,    *)
(* duplicate groups, group-image links, duplicate members), of duplicate   *)
(* detection over it, and of the batched ExifTool metadata extraction.     *)
(*                                                                         *)
(* Spec      : the store and the operations insert_image, insert_files,    *)
(*             detect_duplicates and delete_image.                         *)
(* SpecExif  : extract_exiftool_data followed by create_database_objects.  *)
(***************************************************************************)
EXTENDS Integers, Sequences, FiniteSets, Bags, TLC

(***************************************************************************)
(* Bounds of the model.                                                    *)
(***************************************************************************)
MaxFiles == 3       \* file ids handed out by insert_files
MaxPaths == 5       \* length of the file list given to extract_exiftool_data
BatchSize == 2      \* stands for batch_size (500 in the source), scaled down

Hashes == {"H", "K"}  \* the content digests files can have
ImageIds == {1, 2}    \* the image ids insert_image hands out

VARIABLES
    \* ---- the store -------------------------------------------------------
    images,         \* table_image: set of image ids
    nextImageId,    \* autoincrement of table_image.id
    files,          \* table_file: set of [id, image_id, file_hash]
    file_hashes,    \* table_file_hash: set of [file_id, file_hash, image_id]
    nextFileId,     \* autoincrement of table_file.id
    groups,         \* table_duplicate_group: set of [id, file_hash]
    nextGroupId,    \* autoincrement of table_duplicate_group.id
    links,          \* duplicate_group_image_association: bag of [duplicate_group_id, image_id]
    members,        \* table_duplicate_member: bag of [group_id, file_id]
    exists_has_join,\* whether the installed SQLAlchemy lets Exists.join evaluate
    ingesting,      \* the image main is storing files for (0: none)
    lastOp,         \* history: the operation that produced this state
    \* ---- one call of extract_exiftool_data --------------------------------
    file_paths,     \* the input list: the files of one subdirectory
    corrupt,        \* environment: the files ExifTool cannot process
    unreadable,     \* environment: the files the local fallback cannot read
    batch_start,    \* loop variable i of the batch loop
    subdir_files,   \* the metadata map being built: file name -> record
    is_python,      \* the fallback set
    ex_pc,          \* "idle" | "batches" | "returned" | "raised" | "built"
    probe_log,      \* history: what was invoked, with its outcome
    file_objects,   \* result of create_database_objects
    \* ---- one run of main ---------------------------------------------------
    main_pc,        \* "idle" | "parse_audit" | "parse_files" | "unpack" | "exited"
    listing,        \* input_path.rglob('*'), directories only, in the order yielded
    disk,           \* the regular files of each subdirectory: subdir -> set of [name, digest]
    audit_listed,   \* the file names of the audit table as parse_audit read them
    audit_table,    \* main's audit_table: the names it holds (empty before parse_audit)
    copy_images,    \* IMAGES
    next_subdir,    \* parse_files: how many subdirectories the loop has taken
    processed,      \* history: the subdirectories taken, in order, with their outcome
    parse_result,   \* what parse_files returned: "none" | "True" | "False"
    main_image_id,  \* main's image_id
    archive,        \* the paths of the copies below output_path/<image_name>
    main_calls,     \* history: the calls main made, in order
    exit_code,      \* -1 while running
    \* ---- two concurrent detect_duplicates runs ------------------------------
    race_pc,        \* run -> position in the reconciliation of the hash
    race_seen       \* run -> what check_duplicate_group_for_image returned to it

storeVars == <<images, nextImageId, files, file_hashes, nextFileId, groups,
               nextGroupId, links, members, exists_has_join, ingesting, lastOp>>
exifVars == <<file_paths, corrupt, unreadable, batch_start, subdir_files, is_python, ex_pc,
              probe_log, file_objects>>
mainVars == <<main_pc, listing, disk, audit_listed, audit_table, copy_images, next_subdir,
              processed, parse_result, main_image_id, archive, main_calls, exit_code>>
raceVars == <<race_pc, race_seen>>
vars == <<storeVars, exifVars, mainVars, raceVars>>

(***************************************************************************)
(* Helpers.                                                                *)
(***************************************************************************)
RECURSIVE SetToSeq(_)
SetToSeq(S) ==
    IF S = {} THEN <<>>
    ELSE LET m == CHOOSE x \in S : \A y \in S : x <= y
         IN <<m>> \o SetToSeq(S \ {m})

Perms(S) ==
    {p \in [1..Cardinality(S) -> S] : \A i, j \in 1..Cardinality(S) : p[i] = p[j] => i = j}

Rows(bag) == BagToSet(bag)

\* The duplicate tables as one value, threaded through a run.
DupState == [groups |-> groups, links |-> links, members |-> members,
             nextGroupId |-> nextGroupId]

(***************************************************************************)
(* crud/duplicate.py.  Every operator takes the duplicate tables D and     *)
(* returns [db, ret]: the tables after the call and the returned int.      *)
(* `fail` is a store failure (SQLAlchemyError) raised by the call's        *)
(* commit; the except branch rolls the session back and returns -1.        *)
(***************************************************************************)

\* insert_duplicate_group over a table without the unique constraint on
\* file_hash: only a store failure rejects the commit.
insert_duplicate_group_not_unique(D, file_hash, fail) ==
    IF fail
    THEN [db |-> D, ret |-> -1]
    ELSE [db |-> [D EXCEPT !.groups = @ \cup {[id |-> D.nextGroupId, file_hash |-> file_hash]},
                          !.nextGroupId = @ + 1],
          ret |-> 1]

\* insert_duplicate_group as an upsert: a group already stored for the
\* hash is replaced by a new row with a new id.
insert_duplicate_group_replaces(D, file_hash, fail) ==
    IF fail
    THEN [db |-> D, ret |-> -1]
    ELSE [db |-> [D EXCEPT !.groups = {g \in @ : g.file_hash # file_hash}
                                        \cup {[id |-> D.nextGroupId, file_hash |-> file_hash]},
                          !.nextGroupId = @ + 1],
          ret |-> 1]

\* session.add(group); session.commit().  The commit is rejected when the
\* store fails or when file_hash is already taken (unique=True).
insert_duplicate_group(D, file_hash, fail) ==
    IF fail \/ (\E g \in D.groups : g.file_hash = file_hash)
    THEN [db |-> D, ret |-> -1]
    ELSE [db |-> [D EXCEPT !.groups = @ \cup {[id |-> D.nextGroupId, file_hash |-> file_hash]},
                          !.nextGroupId = @ + 1],
          ret |-> 1]

\* .filter(DuplicateGroup.file_hash == file_hash).first(), as a set (empty: None)
group_by_hash(D, file_hash) ==
    LET gs == {g \in D.groups : g.file_hash = file_hash}
    IN IF gs = {} THEN {} ELSE {CHOOSE g \in gs : \A o \in gs : g.id <= o.id}

\* link_duplicate_group_to_image without the `image not in
\* duplicate_group.images` test: the image is appended again and the
\* commit is rejected by the association table's primary key.
link_duplicate_group_to_image_always_append(D, file_hash, image_id, fail) ==
    IF ~(image_id > 0 /\ file_hash # "")
    THEN [db |-> D, ret |-> 0]
    ELSE LET found == group_by_hash(D, file_hash)
         IN IF found = {} THEN [db |-> D, ret |-> 0]
            ELSE LET g == CHOOSE x \in found : TRUE
                     row == [duplicate_group_id |-> g.id, image_id |-> image_id]
                 IN IF fail \/ (image_id \in images /\ BagIn(row, D.links))
                    THEN [db |-> D, ret |-> -1]
                    ELSE IF image_id \in images
                         THEN [db |-> [D EXCEPT !.links = @ (+) SetToBag({row})], ret |-> 1]
                         ELSE [db |-> D, ret |-> 1]

\* link_duplicate_group_to_image whose except branch does not roll back:
\* the appended link stays although -1 is returned.
link_duplicate_group_to_image_no_rollback(D, file_hash, image_id, fail) ==
    IF ~(image_id > 0 /\ file_hash # "")
    THEN [db |-> D, ret |-> 0]
    ELSE LET found == group_by_hash(D, file_hash)
         IN IF found = {} THEN [db |-> D, ret |-> 0]
            ELSE LET g == CHOOSE x \in found : TRUE
                     row == [duplicate_group_id |-> g.id, image_id |-> image_id]
                     append == image_id \in images /\ ~BagIn(row, D.links)
                     after == IF append
                              THEN [D EXCEPT !.links = @ (+) SetToBag({row})]
                              ELSE D
                 IN [db |-> after, ret |-> IF fail THEN -1 ELSE 1]

\* if image and image not in duplicate_group.images: append; commit; return 1
link_duplicate_group_to_image(D, file_hash, image_id, fail) ==
    IF ~(image_id > 0 /\ file_hash # "")
    THEN [db |-> D, ret |-> 0]
    ELSE LET found == group_by_hash(D, file_hash)
         IN IF found = {} THEN [db |-> D, ret |-> 0]
            ELSE LET g == CHOOSE x \in found : TRUE
                     row == [duplicate_group_id |-> g.id, image_id |-> image_id]
                     append == image_id \in images /\ ~BagIn(row, D.links)
                 IN IF fail THEN [db |-> D, ret |-> -1]
                    ELSE IF append
                         THEN [db |-> [D EXCEPT !.links = @ (+) SetToBag({row})], ret |-> 1]
                         ELSE [db |-> D, ret |-> 1]

\* the group with this hash that is linked to this image, as a set (empty: None)
read_duplicate_group_for_image_and_hash(D, file_hash, image_id) ==
    LET gs == {g \in D.groups :
                  /\ g.file_hash = file_hash
                  /\ BagIn([duplicate_group_id |-> g.id, image_id |-> image_id], D.links)}
    IN IF gs = {} THEN {} ELSE {CHOOSE g \in gs : \A o \in gs : g.id <= o.id}

\* insert_duplicate_member over a table without the unique constraint on
\* file_id and without the primary key: a second row for the file is stored.
insert_duplicate_member_not_unique(D, file_hash, image_id, file_id, fail) ==
    IF ~(file_hash # "" /\ image_id > 0)
    THEN [db |-> D, ret |-> 0]
    ELSE LET found == read_duplicate_group_for_image_and_hash(D, file_hash, image_id)
         IN IF found = {} THEN [db |-> D, ret |-> 0]
            ELSE LET g == CHOOSE x \in found : TRUE
                     row == [group_id |-> g.id, file_id |-> file_id]
                 IN IF fail \/ ~(\E f \in files : f.id = file_id)
                    THEN [db |-> D, ret |-> -1]
                    ELSE [db |-> [D EXCEPT !.members = @ (+) SetToBag({row})], ret |-> 1]

\* insert_duplicate_member that takes the group by its hash alone, linked
\* to the image or not.
insert_duplicate_member_any_group(D, file_hash, image_id, file_id, fail) ==
    IF ~(file_hash # "" /\ image_id > 0)
    THEN [db |-> D, ret |-> 0]
    ELSE LET found == group_by_hash(D, file_hash)
         IN IF found = {} THEN [db |-> D, ret |-> 0]
            ELSE LET g == CHOOSE x \in found : TRUE
                     row == [group_id |-> g.id, file_id |-> file_id]
                 IN IF \/ fail
                       \/ \E m \in Rows(D.members) : m.file_id = file_id
                       \/ ~(\E f \in files : f.id = file_id)
                    THEN [db |-> D, ret |-> -1]
                    ELSE [db |-> [D EXCEPT !.members = @ (+) SetToBag({row})], ret |-> 1]

\* session.add(DuplicateMember(group_id, file_id)); session.commit().  The
\* commit is rejected when the store fails, when file_id already has a row
\* (unique=True on file_id, and the primary key), or when file_id is no file.
insert_duplicate_member(D, file_hash, image_id, file_id, fail) ==
    IF ~(file_hash # "" /\ image_id > 0)
    THEN [db |-> D, ret |-> 0]
    ELSE LET found == read_duplicate_group_for_image_and_hash(D, file_hash, image_id)
         IN IF found = {} THEN [db |-> D, ret |-> 0]
            ELSE LET g == CHOOSE x \in found : TRUE
                     row == [group_id |-> g.id, file_id |-> file_id]
                 IN IF \/ fail
                       \/ \E m \in Rows(D.members) : m.file_id = file_id
                       \/ ~(\E f \in files : f.id = file_id)
                    THEN [db |-> D, ret |-> -1]
                    ELSE [db |-> [D EXCEPT !.members = @ (+) SetToBag({row})], ret |-> 1]

\* Returns [exists, linked, raised].  The second query is built as
\* exists().where(..).where(..).join(..): SQLAlchemy's Exists documents
\* where/select_from/correlate/select and no join, so evaluating the
\* expression raises AttributeError, which neither except clause of this
\* function catches.  exists_has_join keeps both outcomes: the query
\* evaluating as written, and the AttributeError.
check_duplicate_group_for_image(D, image_id, file_hash, fail) ==
    IF fail THEN [exists |-> FALSE, linked |-> FALSE, raised |-> FALSE]
    ELSE IF \E g \in D.groups : g.file_hash = file_hash
         THEN IF ~exists_has_join
              THEN [exists |-> FALSE, linked |-> FALSE, raised |-> TRUE]
              ELSE [exists |-> TRUE,
                    linked |-> \E g \in D.groups :
                                  /\ g.file_hash = file_hash
                                  /\ BagIn([duplicate_group_id |-> g.id, image_id |-> image_id], D.links),
                    raised |-> FALSE]
         ELSE [exists |-> FALSE, linked |-> FALSE, raised |-> FALSE]

(***************************************************************************)
(* crud/file.py                                                            *)
(***************************************************************************)
read_file_hashes_for_image(image_id, fail) ==
    IF fail THEN {} ELSE {fh \in file_hashes : fh.image_id = image_id}

read_files_with_hash(fail) ==
    IF fail THEN {} ELSE {f \in files : f.file_hash # ""}

(***************************************************************************)
(* parser/duplicates.py: detect_duplicates.                                *)
(*                                                                         *)
(* A run threads st = [db, calls, raised] through the loop: the duplicate  *)
(* tables, the log of the store calls made (each with its return value,    *)
(* whether its row was already stored, and whether it changed the tables), *)
(* and whether an exception left the loop.  F is the set of store calls    *)
(* that fail in this run, named <<function, hash, file id>>.               *)
(***************************************************************************)
\* whether the row the call is about to write was already stored
Had(D, fn, file_hash, image_id, file_id) ==
    CASE fn = "insert_duplicate_group" ->
            \E g \in D.groups : g.file_hash = file_hash
      [] fn = "link_duplicate_group_to_image" ->
            \E g \in D.groups :
               /\ g.file_hash = file_hash
               /\ BagIn([duplicate_group_id |-> g.id, image_id |-> image_id], D.links)
      [] OTHER ->
            \E m \in Rows(D.members) : m.file_id = file_id

Logged(st, fn, file_hash, image_id, file_id, fail, r) ==
    [st EXCEPT !.db = r.db,
               !.failed = @ \/ fail,
               !.calls = Append(@, [fn |-> fn, file_hash |-> file_hash,
                                    file_id |-> file_id, fail |-> fail, ret |-> r.ret,
                                    had |-> Had(st.db, fn, file_hash, image_id, file_id),
                                    changed |-> r.db # st.db])]

\* hash_groups: file_hash -> the file ids of this image carrying it
hash_groups_keys(image_hashes) == {fh.file_hash : fh \in image_hashes}
hash_groups(image_hashes, file_hash) ==
    {fh.file_id : fh \in {x \in image_hashes : x.file_hash = file_hash}}

\* for file_id in file_ids: insert_duplicate_member(...)
\* (s \in {..} binds the state after each call as a value, once)
RECURSIVE MemberLoop(_, _, _, _, _)
MemberLoop(st, file_hash, image_id, file_ids, F) ==
    IF file_ids = <<>> THEN st
    ELSE LET file_id == Head(file_ids)
                 fail == <<"insert_duplicate_member", file_hash, file_id>> \in F
             after == {Logged(st, "insert_duplicate_member", file_hash, image_id, file_id, fail, r) :
                          r \in {insert_duplicate_member(st.db, file_hash, image_id, file_id, fail)}}
         IN CHOOSE out \in {MemberLoop(s, file_hash, image_id, Tail(file_ids), F) : s \in after} : TRUE

\* if not exists: insert_duplicate_group(...)
GroupStep(st, c, image_id, file_hash, F) ==
    IF ~c.exists
    THEN LET fail == <<"insert_duplicate_group", file_hash, 0>> \in F
         IN CHOOSE out \in {Logged(st, "insert_duplicate_group", file_hash, image_id, 0, fail, r) :
                               r \in {insert_duplicate_group(st.db, file_hash, fail)}} : TRUE
    ELSE st

\* the link call of either branch
LinkStep(st, c, image_id, file_hash, F) ==
    IF ~c.exists \/ (c.exists /\ ~c.linked)
    THEN LET fail == <<"link_duplicate_group_to_image", file_hash, 0>> \in F
         IN CHOOSE out \in {Logged(st, "link_duplicate_group_to_image", file_hash, image_id, 0, fail, r) :
                               r \in {link_duplicate_group_to_image(st.db, file_hash, image_id, fail)}} : TRUE
    ELSE st

\* the body of the loop over hash_groups.items(), for one hash with >= 2 files
ReconcileHash(st, image_id, file_hash, file_ids, F) ==
    LET check_fails == <<"check_duplicate_group_for_image", file_hash, 0>> \in F
        s0 == [st EXCEPT !.failed = @ \/ check_fails]
    IN CHOOSE out \in
         {IF c.raised THEN [s0 EXCEPT !.raised = TRUE]
          ELSE CHOOSE o2 \in
                 {CHOOSE o3 \in {MemberLoop(s2, file_hash, image_id, SetToSeq(file_ids), F) :
                                    s2 \in {LinkStep(s1, c, image_id, file_hash, F)}} : TRUE :
                    s1 \in {GroupStep(s0, c, image_id, file_hash, F)}} : TRUE :
            c \in {check_duplicate_group_for_image(st.db, image_id, file_hash, check_fails)}} : TRUE

\* the loop without the `len(file_ids) >= 2` test: every hash is reconciled
RECURSIVE HashLoop_every_hash(_, _, _, _, _)
HashLoop_every_hash(st, image_id, image_hashes, order, F) ==
    IF order = <<>> \/ st.raised THEN st
    ELSE LET file_hash == Head(order)
             file_ids == hash_groups(image_hashes, file_hash)
             after == {ReconcileHash(st, image_id, file_hash, file_ids, F)}
         IN CHOOSE out \in {HashLoop_every_hash(s, image_id, image_hashes, Tail(order), F) : s \in after} : TRUE

\* for file_hash, file_ids in hash_groups.items(): if len(file_ids) >= 2: ...
\* `order` is the iteration order of the dict's keys (the row order of the
\* unordered query that filled it).
RECURSIVE HashLoop(_, _, _, _, _)
HashLoop(st, image_id, image_hashes, order, F) ==
    IF order = <<>> \/ st.raised THEN st
    ELSE LET file_hash == Head(order)
             file_ids == hash_groups(image_hashes, file_hash)
             after == {IF Cardinality(file_ids) >= 2
                       THEN ReconcileHash(st, image_id, file_hash, file_ids, F)
                       ELSE st}
         IN CHOOSE out \in {HashLoop(s, image_id, image_hashes, Tail(order), F) : s \in after} : TRUE

\* detect_duplicates that also marks each file with a membership as a
\* duplicate (File.is_duplicate = True).
detect_duplicates_marks_files(image_id, cross_image, order, F) ==
    LET read_fails == <<"read_file_hashes_for_image", "", 0>> \in F
        image_hashes == read_file_hashes_for_image(image_id, read_fails)
        all_hashes == read_files_with_hash(FALSE)
        st0 == [db |-> DupState, calls |-> <<>>, raised |-> FALSE, failed |-> read_fails]
        marked(db) == {IF \E m \in Rows(db.members) : m.file_id = f.id
                       THEN [f EXCEPT !.is_duplicate = TRUE] ELSE f : f \in files}
    IN IF image_hashes = {} \/ all_hashes = {}
       THEN [db |-> DupState, calls |-> <<>>, failed |-> read_fails, outcome |-> "skipped",
             files |-> files]
       ELSE IF ~cross_image
            THEN CHOOSE out \in
                   {[db |-> st.db, calls |-> st.calls, failed |-> st.failed,
                     outcome |-> IF st.raised THEN "exception" ELSE "completed",
                     files |-> marked(st.db)] :
                      st \in {HashLoop(st0, image_id, image_hashes, order, F)}} : TRUE
            ELSE [db |-> DupState, calls |-> <<>>, failed |-> read_fails, outcome |-> "completed",
                  files |-> files]

\* detect_duplicates whose loop over the image's hashes runs for either
\* value of cross_image.
detect_duplicates_any_mode(image_id, cross_image, order, F) ==
    LET read_fails == <<"read_file_hashes_for_image", "", 0>> \in F
        image_hashes == read_file_hashes_for_image(image_id, read_fails)
        all_hashes == read_files_with_hash(FALSE)
        st0 == [db |-> DupState, calls |-> <<>>, raised |-> FALSE, failed |-> read_fails]
    IN IF image_hashes = {} \/ all_hashes = {}
       THEN [db |-> DupState, calls |-> <<>>, failed |-> read_fails, outcome |-> "skipped",
             files |-> files]
       ELSE CHOOSE out \in
              {[db |-> st.db, calls |-> st.calls, failed |-> st.failed,
                outcome |-> IF st.raised THEN "exception" ELSE "completed",
                files |-> files] :
                 st \in {HashLoop(st0, image_id, image_hashes, order, F)}} : TRUE

\* The whole call.  outcome: "skipped" (no hashes read), "completed", or
\* "exception" (caught by `except Exception`, printed, not re-raised).
\* failed: whether a store call of the run failed.  files: the File rows
\* after the call; no statement of the run assigns to a File.
detect_duplicates(image_id, cross_image, order, F) ==
    LET read_fails == <<"read_file_hashes_for_image", "", 0>> \in F
        image_hashes == read_file_hashes_for_image(image_id, read_fails)
        all_hashes == read_files_with_hash(FALSE)
        st0 == [db |-> DupState, calls |-> <<>>, raised |-> FALSE, failed |-> read_fails]
    IN IF image_hashes = {} \/ all_hashes = {}
       THEN [db |-> DupState, calls |-> <<>>, failed |-> read_fails, outcome |-> "skipped",
             files |-> files]
       ELSE IF ~cross_image
            THEN CHOOSE out \in
                   {[db |-> st.db, calls |-> st.calls, failed |-> st.failed,
                     outcome |-> IF st.raised THEN "exception" ELSE "completed",
                     files |-> files] :
                      st \in {HashLoop(st0, image_id, image_hashes, order, F)}} : TRUE
            ELSE [db |-> DupState, calls |-> <<>>, failed |-> read_fails, outcome |-> "completed",
                  files |-> files]

\* the store calls a run for this image can make
FailPoints(image_id, cross_image) ==
    LET hs == {fh \in file_hashes : fh.image_id = image_id /\ ~cross_image}
        cand == {h \in hash_groups_keys(hs) : Cardinality(hash_groups(hs, h)) >= 2}
    IN {<<"read_file_hashes_for_image", "", 0>>}
       \cup {<<fn, h, 0>> : fn \in {"check_duplicate_group_for_image", "insert_duplicate_group",
                                     "link_duplicate_group_to_image"},
                           h \in cand}
       \cup {<<"insert_duplicate_member", fh.file_hash, fh.file_id>> :
                fh \in {x \in hs : x.file_hash \in cand}}

\* the failures of one run: none, or one failing store call
Failures(image_id, cross_image) ==
    {{}} \cup {{p} : p \in FailPoints(image_id, cross_image)}

\* the iteration orders of hash_groups (the row order of the unordered
\* query that filled the dict)
Orders(image_id) ==
    Perms(hash_groups_keys({fh \in file_hashes : fh.image_id = image_id}))

(***************************************************************************)
(* crud/file.py: insert_files, and crud/image.py: insert_image,            *)
(* delete_image, as functions of the store.                                *)
(***************************************************************************)
\* insert_files whose except branch does not roll back: the File rows
\* flushed before the failing commit stay stored.
insert_files_no_rollback(image_id, batch, fail) ==
    LET new == {[id |-> nextFileId + i - 1, image_id |-> image_id, file_hash |-> batch[i],
                  is_duplicate |-> FALSE] :
                   i \in 1..Len(batch)}
    IN [files |-> files \cup new, file_hashes |-> file_hashes,
        nextFileId |-> nextFileId + Len(batch), ret |-> IF fail THEN -1 ELSE 1]

\* session.add_all(files); flush; one FileHash per file with a hash; commit.
\* batch: sequence of file hashes, one per File object of the batch.
insert_files(image_id, batch, fail) ==
    LET new == {[id |-> nextFileId + i - 1, image_id |-> image_id, file_hash |-> batch[i],
                  is_duplicate |-> FALSE] :
                   i \in 1..Len(batch)}
        new_hashes == {[file_id |-> f.id, file_hash |-> f.file_hash, image_id |-> f.image_id] :
                          f \in {x \in new : x.file_hash # ""}}
    IN IF fail \/ image_id \notin images
       THEN [files |-> files, file_hashes |-> file_hashes, nextFileId |-> nextFileId, ret |-> -1]
       ELSE [files |-> files \cup new, file_hashes |-> file_hashes \cup new_hashes,
             nextFileId |-> nextFileId + Len(batch), ret |-> 1]

\* delete_image that deletes every group linked to the deleted image,
\* whether or not members of another image remain.
delete_image_drops_linked_groups(image_id, fail) ==
    LET gone == {f.id : f \in {x \in files : x.image_id = image_id}}
        members1 == {m \in Rows(members) : m.file_id \notin gone}
        links1 == {l \in Rows(links) : l.image_id # image_id}
        dropped == {g \in groups :
                       \/ ~(\E m \in members1 : m.group_id = g.id)
                       \/ BagIn([duplicate_group_id |-> g.id, image_id |-> image_id], links)}
        kept == groups \ dropped
        unchanged == [images |-> images, files |-> files, file_hashes |-> file_hashes,
                      groups |-> groups, links |-> links, members |-> members, ret |-> -1,
                      groups_log |-> <<>>]
    IN IF image_id \notin images THEN unchanged
       ELSE IF fail THEN unchanged
       ELSE [images |-> images \ {image_id},
             files |-> {f \in files : f.image_id # image_id},
             file_hashes |-> {fh \in file_hashes : fh.image_id # image_id /\ fh.file_id \notin gone},
             groups |-> kept,
             links |-> [l \in {x \in links1 : \E g \in kept : g.id = x.duplicate_group_id}
                          |-> links[l]],
             members |-> [m \in {x \in members1 : \E g \in kept : g.id = x.group_id}
                            |-> members[m]],
             ret |-> 1,
             groups_log |-> <<>>]

\* session.delete(image): the image's files, hash entries, memberships and
\* links go with it (ORM cascade and ON DELETE CASCADE); then every group
\* without a member row is deleted (with its links); commit.
\* groups_log: per group stored before the call, in id order, how many of
\* its member rows went with the image's files (cascaded), how many stayed
\* (remaining), and whether the empty-group loop deleted it.
delete_image(image_id, fail) ==
    LET gone == {f.id : f \in {x \in files : x.image_id = image_id}}
        members1 == {m \in Rows(members) : m.file_id \notin gone}
        links1 == {l \in Rows(links) : l.image_id # image_id}
        empty_groups == {g \in groups : ~(\E m \in members1 : m.group_id = g.id)}
        kept == groups \ empty_groups
        ids == SetToSeq({g.id : g \in groups})
        entry(g) == [fn |-> "delete_image", group_id |-> g.id, file_hash |-> g.file_hash,
                     cascaded |-> Cardinality({m \in Rows(members) :
                                                  m.group_id = g.id /\ m.file_id \in gone}),
                     remaining |-> Cardinality({m \in members1 : m.group_id = g.id}),
                     deleted |-> g \in empty_groups]
        unchanged == [images |-> images, files |-> files, file_hashes |-> file_hashes,
                      groups |-> groups, links |-> links, members |-> members, ret |-> -1,
                      groups_log |-> <<>>]
    IN IF image_id \notin images THEN unchanged
       ELSE IF fail THEN unchanged
       ELSE [images |-> images \ {image_id},
             files |-> {f \in files : f.image_id # image_id},
             file_hashes |-> {fh \in file_hashes : fh.image_id # image_id /\ fh.file_id \notin gone},
             groups |-> kept,
             links |-> [l \in {x \in links1 : \E g \in kept : g.id = x.duplicate_group_id}
                          |-> links[l]],
             members |-> [m \in members1 |-> members[m]],
             ret |-> 1,
             groups_log |-> [k \in 1..Len(ids) |->
                               entry(CHOOSE g \in groups : g.id = ids[k])]]

\* The history record: the operation, its arguments and result, the store
\* calls it made, and `streak`: how many failure-free intra-image
\* detect_duplicates runs for image_id, this one included, came one after
\* the other with no other operation in between (counted up to 2).
Op(op, image_id, cross_image, failed, outcome, ret, calls) ==
    [op |-> op, image_id |-> image_id, cross_image |-> cross_image, failed |-> failed,
     outcome |-> outcome, ret |-> ret, calls |-> calls,
     streak |-> IF op = "detect_duplicates" /\ ~cross_image /\ ~failed
                THEN IF lastOp.streak >= 1 /\ lastOp.image_id = image_id THEN 2 ELSE 1
                ELSE 0]

(***************************************************************************)
(* parser/indv_files.py: extract_exiftool_data, create_database_objects.   *)
(*                                                                         *)
(* A file is [parent, name]; the files of one call are the regular files   *)
(* of one subdirectory, so their names differ.  A metadata record is a     *)
(* dict from tag names to values.                                          *)
(***************************************************************************)
\* Path(filepath).name
PathName(filepath) == filepath.name

\* the suffix of a file's name, and the extension ExifTool reports for its
\* content ('File:FileTypeExtension'), for the files of the subdirectory
Suffix(name) ==
    CASE name = 1 -> "jpg"
      [] name = 2 -> "png"
      [] name = 3 -> "txt"
      [] name = 4 -> "htm"
      [] OTHER -> "tif"

ProbedExtension(name) ==
    CASE name = 1 -> "JPEG"
      [] name = 2 -> "JPG"
      [] name = 3 -> "TXT"
      [] name = 4 -> "HTML"
      [] OTHER -> "PDF"

\* str.upper() on the suffixes above
Upper(suffix) ==
    CASE suffix = "jpg" -> "JPG"
      [] suffix = "png" -> "PNG"
      [] suffix = "txt" -> "TXT"
      [] suffix = "htm" -> "HTM"
      [] OTHER -> "TIF"

\* the dict ExifTool returns for a file it can process
ProbeRecord(filepath) ==
    [t \in {"SourceFile", "File:FileName", "File:FileType", "File:FileTypeExtension",
            "EXIF:Make"} |->
        CASE t = "SourceFile" -> filepath
          [] t = "File:FileName" -> PathName(filepath)
          [] t = "File:FileType" -> "exiftool"
          [] t = "File:FileTypeExtension" -> ProbedExtension(PathName(filepath))
          [] OTHER -> "exiftool"]

\* file_dict, built from the path, magic and stat
FallbackRecord(filepath) ==
    [t \in {"File:FileName", "File:FileType", "File:FileTypeExtension"} |->
        CASE t = "File:FileName" -> PathName(filepath)
          [] t = "File:FileTypeExtension" -> Upper(Suffix(PathName(filepath)))
          [] OTHER -> "magic"]

\* subdir_files[key] = record
DictSet(d, key, record) ==
    [k \in DOMAIN d \cup {key} |-> IF k = key THEN record ELSE d[k]]

\* for file in ex.get_metadata(batch): subdir_files[file['File:FileName']] = file
RECURSIVE store_probe_records(_, _)
store_probe_records(d, batch) ==
    IF batch = <<>> THEN d
    ELSE LET file == ProbeRecord(Head(batch))
         IN store_probe_records(DictSet(d, file["File:FileName"], file), Tail(batch))

\* the retry that marks every file of the failed batch as fallback-derived
RECURSIVE retry_individually_all_fallback(_, _)
retry_individually_all_fallback(st, batch) ==
    IF batch = <<>> \/ st.raised THEN st
    ELSE LET filepath == Head(batch)
             name == PathName(filepath)
             single == [kind |-> "single", file |-> name, ok |-> filepath \notin corrupt]
             next ==
               IF filepath \notin corrupt
               THEN [st EXCEPT !.subdir_files = DictSet(@, ProbeRecord(filepath)["File:FileName"],
                                                        ProbeRecord(filepath)),
                               !.is_python = @ \cup {name},
                               !.log = Append(@, single)]
               ELSE IF filepath \in unreadable
               THEN [st EXCEPT !.raised = TRUE,
                               !.log = Append(Append(@, single),
                                              [kind |-> "fallback", file |-> name, ok |-> FALSE])]
               ELSE [st EXCEPT !.subdir_files = DictSet(@, name, FallbackRecord(filepath)),
                               !.is_python = @ \cup {name},
                               !.log = Append(Append(@, single),
                                              [kind |-> "fallback", file |-> name, ok |-> TRUE])]
         IN retry_individually_all_fallback(next, Tail(batch))

\* the retry that drops a file ExifTool fails on instead of falling back
RECURSIVE retry_individually_no_fallback(_, _)
retry_individually_no_fallback(st, batch) ==
    IF batch = <<>> \/ st.raised THEN st
    ELSE LET filepath == Head(batch)
             name == PathName(filepath)
             single == [kind |-> "single", file |-> name, ok |-> filepath \notin corrupt]
             next ==
               IF filepath \notin corrupt
               THEN [st EXCEPT !.subdir_files = DictSet(@, ProbeRecord(filepath)["File:FileName"],
                                                        ProbeRecord(filepath)),
                               !.log = Append(@, single)]
               ELSE [st EXCEPT !.log = Append(@, single)]
         IN retry_individually_no_fallback(next, Tail(batch))

\* for filepath in batch: probe the file alone; on ExifToolExecuteError build
\* file_dict locally (magic, stat: an error there leaves the function) and
\* add the name to is_python.
\* st = [subdir_files, is_python, log, raised]
RECURSIVE retry_individually(_, _)
retry_individually(st, batch) ==
    IF batch = <<>> \/ st.raised THEN st
    ELSE LET filepath == Head(batch)
             name == PathName(filepath)
             single == [kind |-> "single", file |-> name, ok |-> filepath \notin corrupt]
             next ==
               IF filepath \notin corrupt
               THEN [st EXCEPT !.subdir_files = DictSet(@, ProbeRecord(filepath)["File:FileName"],
                                                        ProbeRecord(filepath)),
                               !.log = Append(@, single)]
               ELSE IF filepath \in unreadable
               THEN [st EXCEPT !.raised = TRUE,
                               !.log = Append(Append(@, single),
                                              [kind |-> "fallback", file |-> name, ok |-> FALSE])]
               ELSE [st EXCEPT !.subdir_files = DictSet(@, name, FallbackRecord(filepath)),
                               !.is_python = @ \cup {name},
                               !.log = Append(Append(@, single),
                                              [kind |-> "fallback", file |-> name, ok |-> TRUE])]
         IN retry_individually(next, Tail(batch))

\* files[i:i + batch_size]
Batch(i) ==
    SubSeq(file_paths, i + 1,
           IF i + BatchSize <= Len(file_paths) THEN i + BatchSize ELSE Len(file_paths))

\* what one ex.get_metadata(batch) can do: return the records, raise
\* ExifToolExecuteError (always, when a file of the batch is corrupt), or
\* raise another error, which no except clause of the function catches
BatchOutcomes(batch) ==
    IF \E k \in 1..Len(batch) : batch[k] \in corrupt
    THEN {"ExifToolExecuteError", "error"}
    ELSE {"ok", "ExifToolExecuteError", "error"}

\* the batch step that retries file by file whatever the batch probe did
probe_batch_always_retry(st, i, outcome) ==
    LET batch == Batch(i)
        logged == [st EXCEPT !.log = Append(@, [kind |-> "batch", file |-> i,
                                                ok |-> outcome = "ok"])]
    IN IF outcome = "error" THEN [logged EXCEPT !.raised = TRUE]
       ELSE retry_individually(logged, batch)

\* one iteration of `for i in range(0, len(file_paths), batch_size)`
probe_batch(st, i, outcome) ==
    LET batch == Batch(i)
        logged == [st EXCEPT !.log = Append(@, [kind |-> "batch", file |-> i,
                                                ok |-> outcome = "ok"])]
    IN CASE outcome = "ok" ->
              [logged EXCEPT !.subdir_files = store_probe_records(@, batch)]
         [] outcome = "ExifToolExecuteError" ->
              retry_individually(logged, batch)
         [] OTHER ->
              [logged EXCEPT !.raised = TRUE]

\* more_metadata: the record itself, with the excluded keys popped
Exclude == {"File:FileTypeExtension", "SourceFile", "File:FileType", "File:MIMEType",
            "File:FileSize", "File:FileModifyDate", "File:FileAccessDate",
            "File:FileCreateDate", "File:FileInodeChangeDate", "File:FileName",
            "ExifTool:ExifToolVersion", "File:Directory"}

Popped(record) == [t \in DOMAIN record \ Exclude |-> record[t]]

\* the File objects, one per entry of subdir_files
\* file_extension_mismatch is assigned nowhere: the object keeps the
\* column's default (models/file.py:64, default=False).
create_database_objects(d, py) ==
    {[file_name |-> key,
      file_type |-> d[key]["File:FileType"],
      file_extension |-> d[key]["File:FileTypeExtension"],
      file_extension_mismatch |-> FALSE,
      is_exiftool |-> key \notin py,
      more_metadata |-> Popped(d[key])] : key \in DOMAIN d}

(***************************************************************************)
(* Actions of the store specification.                                     *)
(***************************************************************************)
\* parse_audit -> insert_image: a new image row
InsertImage ==
    /\ nextImageId \in ImageIds
    /\ images' = images \cup {nextImageId}
    /\ nextImageId' = nextImageId + 1
    /\ ingesting' = nextImageId
    /\ lastOp' = Op("insert_image", nextImageId, FALSE, FALSE, "", nextImageId, <<>>)
    /\ UNCHANGED <<files, file_hashes, nextFileId, groups, nextGroupId, links, members,
                   exists_has_join>>

\* the byte strings a carved file can hold: none (a 0-byte file), or some
Contents == {"", "bytes"}

\* hashlib.sha256() fed the file's chunks, then hexdigest(): 64 hex digits
\* for any input.  "K" stands for the digest of no input
\* (e3b0c442...7852b855), "H" for the digest of the other content.
sha256_hexdigest(data) == IF data = "" THEN "K" ELSE "H"

\* parse_files -> hash_and_store, insert_files: one subdirectory's batch of
\* an image, each File with the digest of its content
InsertFiles ==
    \E image_id \in images \cap {ingesting}, n \in 1..2, fail \in BOOLEAN :
      \E contents \in [1..n -> Contents] :
        /\ nextFileId + n - 1 <= MaxFiles
        /\ \E r \in {insert_files(image_id,
                                  [i \in 1..n |-> sha256_hexdigest(contents[i])], fail)} :
              /\ files' = r.files
              /\ file_hashes' = r.file_hashes
              /\ nextFileId' = r.nextFileId
              /\ lastOp' = Op("insert_files", image_id, FALSE, fail, "", r.ret, <<>>)
        /\ UNCHANGED <<images, nextImageId, groups, nextGroupId, links, members,
                       exists_has_join, ingesting>>

\* main -> detect_duplicates(session, image_id, cross_image)
DetectDuplicates ==
    \E image_id \in images, cross_image \in BOOLEAN :
      \E F \in Failures(image_id, cross_image) :
        \E order \in Orders(image_id) :
          \E r \in {detect_duplicates(image_id, cross_image, order, F)} :
             /\ groups' = r.db.groups
             /\ links' = r.db.links
             /\ members' = r.db.members
             /\ nextGroupId' = r.db.nextGroupId
             /\ lastOp' = Op("detect_duplicates", image_id, cross_image, r.failed,
                             r.outcome, 0, r.calls)
             /\ ingesting' = IF ingesting = image_id THEN 0 ELSE ingesting
             /\ files' = r.files
             /\ UNCHANGED <<images, nextImageId, file_hashes, nextFileId,
                            exists_has_join>>

\* cleanup -> delete_image(image_id, session)
DeleteImage ==
    \E image_id \in images, fail \in BOOLEAN :
      \E r \in {delete_image(image_id, fail)} :
         /\ images' = r.images
         /\ files' = r.files
         /\ file_hashes' = r.file_hashes
         /\ groups' = r.groups
         /\ links' = r.links
         /\ members' = r.members
         /\ ingesting' = IF ingesting = image_id /\ r.ret = 1 THEN 0 ELSE ingesting
         /\ lastOp' = Op("delete_image", image_id, FALSE, fail, "", r.ret, r.groups_log)
         /\ UNCHANGED <<nextImageId, nextFileId, nextGroupId, exists_has_join>>

(***************************************************************************)
(* Actions of the extraction specification.                                *)
(***************************************************************************)
\* one iteration of the batch loop of extract_exiftool_data
ProbeBatch ==
    /\ ex_pc = "batches"
    /\ batch_start < Len(file_paths)
    /\ \E outcome \in BatchOutcomes(Batch(batch_start)) :
         \E r \in {probe_batch([subdir_files |-> subdir_files, is_python |-> is_python,
                                log |-> probe_log, raised |-> FALSE],
                               batch_start, outcome)} :
            /\ subdir_files' = r.subdir_files
            /\ is_python' = r.is_python
            /\ probe_log' = r.log
            /\ ex_pc' = IF r.raised THEN "raised" ELSE "batches"
    /\ batch_start' = batch_start + BatchSize
    /\ UNCHANGED <<file_paths, corrupt, unreadable, file_objects>>

\* the loop is exhausted: return subdir_files, is_python
ReturnMetadata ==
    /\ ex_pc = "batches"
    /\ batch_start >= Len(file_paths)
    /\ ex_pc' = "returned"
    /\ UNCHANGED <<file_paths, corrupt, unreadable, batch_start, subdir_files, is_python,
                   probe_log, file_objects>>

\* parse_files -> create_database_objects(subdir_files, ..., is_python);
\* more_metadata is the record of subdir_files itself, so the pops show there
CreateDatabaseObjects ==
    /\ ex_pc = "returned"
    /\ file_objects' = create_database_objects(subdir_files, is_python)
    /\ subdir_files' = [key \in DOMAIN subdir_files |-> Popped(subdir_files[key])]
    /\ ex_pc' = "built"
    /\ UNCHANGED <<file_paths, corrupt, unreadable, batch_start, is_python, probe_log>>

ExifIdle ==
    /\ file_paths = <<>>
    /\ corrupt = {}
    /\ unreadable = {}
    /\ batch_start = 0
    /\ subdir_files = <<>>
    /\ is_python = {}
    /\ ex_pc = "idle"
    /\ probe_log = <<>>
    /\ file_objects = {}

\* parse_files calls extract_exiftool_data(files, file_paths, set()) with the
\* regular files of one subdirectory
ExifCalled ==
    /\ \E n \in 0..MaxPaths :
          file_paths = [k \in 1..n |-> [parent |-> "subdir", name |-> k]]
    /\ corrupt \in SUBSET {file_paths[k] : k \in 1..Len(file_paths)}
    /\ unreadable \in SUBSET corrupt
    /\ batch_start = 0
    /\ subdir_files = <<>>
    /\ is_python = {}
    /\ ex_pc = "batches"
    /\ probe_log = <<>>
    /\ file_objects = {}

\* the store after create_database(): every table empty
StoreCreated ==
    /\ images = {}
    /\ nextImageId = 1
    /\ files = {}
    /\ file_hashes = {}
    /\ nextFileId = 1
    /\ groups = {}
    /\ nextGroupId = 1
    /\ links = EmptyBag
    /\ members = EmptyBag
    /\ exists_has_join \in BOOLEAN
    /\ ingesting = 0
    /\ lastOp = [op |-> "create_database", image_id |-> 0, cross_image |-> FALSE,
                 failed |-> FALSE, outcome |-> "", ret |-> 0, calls |-> <<>>, streak |-> 0]

MainIdle ==
    /\ main_pc = "idle"
    /\ listing = <<>>
    /\ disk = <<>>
    /\ audit_listed = {}
    /\ audit_table = {}
    /\ copy_images = FALSE
    /\ next_subdir = 0
    /\ processed = <<>>
    /\ parse_result = "none"
    /\ main_image_id = -1
    /\ archive = {}
    /\ main_calls = <<>>
    /\ exit_code = -1

RaceIdle ==
    /\ race_pc = <<>>
    /\ race_seen = <<>>

Init == StoreCreated /\ ExifIdle /\ MainIdle /\ RaceIdle

Next ==
    \/ InsertImage /\ UNCHANGED <<exifVars, mainVars, raceVars>>
    \/ InsertFiles /\ UNCHANGED <<exifVars, mainVars, raceVars>>
    \/ DetectDuplicates /\ UNCHANGED <<exifVars, mainVars, raceVars>>
    \/ DeleteImage /\ UNCHANGED <<exifVars, mainVars, raceVars>>

Spec == Init /\ [][Next]_vars

InitExif == StoreCreated /\ ExifCalled /\ MainIdle /\ RaceIdle

NextExif ==
    \/ ProbeBatch /\ UNCHANGED <<storeVars, mainVars, raceVars>>
    \/ ReturnMetadata /\ UNCHANGED <<storeVars, mainVars, raceVars>>
    \/ CreateDatabaseObjects /\ UNCHANGED <<storeVars, mainVars, raceVars>>

SpecExif == InitExif /\ [][NextExif]_vars

(***************************************************************************)
(* main.py: one run of main, with parse_audit, parse_files and cleanup.    *)
(*                                                                         *)
(* A subdirectory is a number (its place in path order); a file on disk is *)
(* [name, digest, ext]: its name, the SHA-256 of its content and its       *)
(* extension.                                                              *)
(***************************************************************************)
MaxSubdirs == 3     \* directories below input_path

\* ext is file.file_extension: the upper-case extension ExifTool reports
DiskFiles == {[name |-> 1, digest |-> "H", ext |-> "JPG"],
              [name |-> 2, digest |-> "K", ext |-> "TXT"]}
AuditNames == {1, 4}  \* the names an audit file can list; 4 is on no disk
image_extensions == {"jpg", "jpeg", "png", "gif", "webp", "svg"}

\* the loop order that follows the listing as yielded, unsorted
sorted_subdirs_as_listed(dirs) == dirs

\* sorted(input_path.rglob('*'))
sorted_subdirs(dirs) == SetToSeq({dirs[k] : k \in 1..Len(dirs)})

\* audit_info = audit_table.get(file.file_name, {}): the lookup reads the
\* table and leaves it as it is
audit_table_get(table, names) ==
    [table |-> table, info |-> {n \in names : n \in table}]

\* file.file_extension.lower()
lower(ext) ==
    CASE ext = "JPG" -> "jpg"
      [] ext = "TXT" -> "txt"
      [] OTHER -> ext

\* hash_and_store without .lower(): the reported extension is looked up as it is
archived_path_case_sensitive(f) ==
    IF copy_images /\ f.ext \in image_extensions
    THEN <<"output_path", "image_name", f.ext, f.name>>
    ELSE <<>>

\* file.file_path after hash_and_store: os.path.join(output_path, image_name,
\* ext, file_name) for a copied file, None (<<>>) otherwise
archived_path(f) ==
    IF copy_images /\ lower(f.ext) \in image_extensions
    THEN <<"output_path", "image_name", lower(f.ext), f.name>>
    ELSE <<>>

\* the copies hash_and_store writes for a set of files
copies(found) == {archived_path(f) : f \in found} \ {<<>>}

\* file.file_path of each File object of a set of files
paths_of(found) ==
    [n \in {f.name : f \in found} |-> archived_path(CHOOSE f \in found : f.name = n)]

\* process_subdir with a hash_and_store that skips a file it cannot open:
\* the files it could hash are inserted and the loop goes on.
process_subdir_skips_unreadable(image_id, subdir, outcome, hashed) ==
    LET found == IF outcome = "hash_error"
                 THEN {f \in disk[subdir] : f.name \in hashed}
                 ELSE disk[subdir]
        names == {f.name : f \in disk[subdir]}
        looked == audit_table_get(audit_table, names)
        by_name == SetToSeq({f.name : f \in found})
        batch == [k \in 1..Len(by_name) |->
                     (CHOOSE f \in found : f.name = by_name[k]).digest]
        stay == [files |-> files, file_hashes |-> file_hashes, nextFileId |-> nextFileId,
                 archive |-> archive, audit_table |-> audit_table, ok |-> FALSE,
                 paths |-> <<>>]
    IN CASE outcome = "extract_error" -> stay
         [] outcome = "connect_error" ->
               [stay EXCEPT !.audit_table = looked.table,
                            !.archive = @ \cup copies(found),
                            !.paths = paths_of(found)]
         [] OTHER ->
               LET r == insert_files(image_id, batch, outcome = "insert_error")
               IN [files |-> r.files, file_hashes |-> r.file_hashes,
                   nextFileId |-> r.nextFileId,
                   archive |-> archive \cup copies(found),
                   audit_table |-> looked.table,
                   ok |-> r.ret >= 0,
                   paths |-> paths_of(found)]

\* One pass of the body of parse_files' loop for `subdir`.  outcome names
\* where it stops: "extract_error" (listing or metadata extraction raises),
\* "hash_error" (open() raises in hash_and_store, after the files in
\* `hashed` were handled), "connect_error" (connect_database returns None),
\* "insert_error" (insert_files returns -1), or "ok".
\* Returns [files, file_hashes, nextFileId, archive, audit_table, ok, paths].
process_subdir(image_id, subdir, outcome, hashed) ==
    LET found == disk[subdir]
        names == {f.name : f \in found}
        looked == audit_table_get(audit_table, names)
        by_name == SetToSeq(names)
        batch == [k \in 1..Len(by_name) |->
                     (CHOOSE f \in found : f.name = by_name[k]).digest]
        stay == [files |-> files, file_hashes |-> file_hashes, nextFileId |-> nextFileId,
                 archive |-> archive, audit_table |-> audit_table, ok |-> FALSE,
                 paths |-> <<>>]
    IN CASE outcome = "extract_error" -> stay
         [] outcome = "hash_error" ->
               [stay EXCEPT !.audit_table = looked.table,
                            !.archive = @ \cup copies({f \in found : f.name \in hashed}),
                            !.paths = paths_of({f \in found : f.name \in hashed})]
         [] outcome = "connect_error" ->
               [stay EXCEPT !.audit_table = looked.table,
                            !.archive = @ \cup copies(found),
                            !.paths = paths_of(found)]
         [] OTHER ->
               LET r == insert_files(image_id, batch, outcome = "insert_error")
               IN [files |-> r.files, file_hashes |-> r.file_hashes,
                   nextFileId |-> r.nextFileId,
                   archive |-> archive \cup copies(found),
                   audit_table |-> looked.table,
                   ok |-> r.ret >= 0,
                   paths |-> paths_of(found)]

\* parsed, audit_table = parse_files(...): parse_files returns True or False,
\* and a bool cannot be unpacked: TypeError
unpack_pair(value) ==
    IF value \in {"True", "False"}
    THEN [raised |-> TRUE, parsed |-> "none"]
    ELSE [raised |-> FALSE, parsed |-> value]

\* cleanup(image_id, image_name, output_path).  outcome: "connect_error"
\* (connect_database returns None: nothing is deleted), "delete_error"
\* (delete_image returns -1) or "ok".
cleanup(image_id, outcome) ==
    LET r == delete_image(image_id, outcome = "delete_error")
        kept == [images |-> images, files |-> files, file_hashes |-> file_hashes,
                 groups |-> groups, links |-> links, members |-> members, ret |-> 0]
    IN IF outcome = "connect_error" THEN [db |-> kept, archive |-> archive]
       ELSE [db |-> IF image_id > 0 THEN r ELSE kept, archive |-> {}]


\* main is called on an empty store: the directories below input_path, the
\* files in them, the audit file's table and IMAGES are the environment's
MainCalled ==
    /\ main_pc = "parse_audit"
    /\ \E n \in 0..MaxSubdirs : listing \in Perms(1..n)
    /\ disk \in [{listing[k] : k \in 1..Len(listing)} -> SUBSET DiskFiles]
    /\ \A d1 \in DOMAIN disk, d2 \in DOMAIN disk : d1 # d2 => disk[d1] \cap disk[d2] = {}
    /\ audit_listed \in SUBSET AuditNames
    /\ audit_table = {}
    /\ copy_images \in BOOLEAN
    /\ next_subdir = 0
    /\ processed = <<>>
    /\ parse_result = "none"
    /\ main_image_id = -1
    /\ archive = {}
    /\ main_calls = <<>>
    /\ exit_code = -1

storeFrame == <<groups, nextGroupId, links, members, exists_has_join, ingesting>>
inputFrame == <<listing, disk, audit_listed, copy_images>>

\* parse_audit(INPUT_PATH) up to the return of insert_image, and for a
\* failure the test on its result.  outcome: "ok" (insert_image committed
\* the image; main has not bound image_id yet), "no_audit_file", or
\* "insert_error" (insert_image returns -1).
ParseAudit ==
    /\ main_pc = "parse_audit"
    /\ \E outcome \in {"ok", "no_audit_file", "insert_error"} :
         IF outcome = "ok"
         THEN /\ images' = images \cup {nextImageId}
              /\ nextImageId' = nextImageId + 1
              /\ main_pc' = "parse_audit_return"
              /\ lastOp' = Op("insert_image", nextImageId, FALSE, FALSE, "", nextImageId, <<>>)
              /\ UNCHANGED <<main_image_id, audit_table, main_calls, exit_code>>
         ELSE /\ main_pc' = "exited"
              /\ exit_code' = 1
              /\ main_calls' = Append(Append(main_calls, "parse_audit"), "sys.exit")
              /\ lastOp' = Op("insert_image", 0, FALSE, outcome = "insert_error", "", -1, <<>>)
              /\ UNCHANGED <<images, nextImageId, main_image_id, audit_table>>
    /\ UNCHANGED <<files, file_hashes, nextFileId, storeFrame, inputFrame, next_subdir,
                   processed, parse_result, archive>>

\* insert_image has committed and returned the id; parse_audit returns and
\* main binds image_id, audit_table, image_name (main.py:134)
ParseAuditReturn ==
    /\ main_pc = "parse_audit_return"
    /\ main_image_id' = lastOp.ret
    /\ audit_table' = audit_listed
    /\ main_pc' = "parse_files"
    /\ main_calls' = Append(main_calls, "parse_audit")
    /\ UNCHANGED <<storeVars, inputFrame, next_subdir, processed, parse_result, archive,
                   exit_code>>

\* parse_files: the loop takes the next subdirectory; an exception in its
\* body ends the loop and parse_files returns False
ProcessSubdir ==
    /\ main_pc = "parse_files"
    /\ next_subdir < Len(listing)
    /\ LET subdir == sorted_subdirs(listing)[next_subdir + 1]
           names == {f.name : f \in disk[subdir]}
       IN \E outcome \in {"ok", "extract_error", "hash_error", "connect_error", "insert_error"},
             hashed \in SUBSET names :
            /\ outcome = "hash_error" => hashed # names
            /\ outcome # "hash_error" => hashed = {}
            /\ \E r \in {process_subdir(main_image_id, subdir, outcome, hashed)} :
                  /\ files' = r.files
                  /\ file_hashes' = r.file_hashes
                  /\ nextFileId' = r.nextFileId
                  /\ archive' = r.archive
                  /\ audit_table' = r.audit_table
                  /\ processed' = Append(processed,
                                         [subdir |-> subdir, ok |-> r.ok, outcome |-> outcome,
                                          stored |-> {f.id : f \in r.files \ files},
                                          paths |-> r.paths])
                  /\ parse_result' = IF r.ok THEN parse_result ELSE "False"
                  /\ main_pc' = IF r.ok THEN "parse_files" ELSE "unpack"
                  /\ lastOp' = Op("insert_files", main_image_id, FALSE,
                                  outcome = "insert_error", outcome,
                                  IF r.ok THEN 1 ELSE -1, <<>>)
    /\ next_subdir' = next_subdir + 1
    /\ UNCHANGED <<images, nextImageId, storeFrame, inputFrame, main_image_id,
                   main_calls, exit_code>>

\* parse_files: the loop is exhausted: return True
ParseFilesReturn ==
    /\ main_pc = "parse_files"
    /\ next_subdir = Len(listing)
    /\ parse_result' = "True"
    /\ main_pc' = "unpack"
    /\ UNCHANGED <<storeVars, inputFrame, audit_table, next_subdir, processed,
                   main_image_id, archive, main_calls, exit_code>>

\* main.py:138: the result of parse_files is unpacked into two names; the
\* TypeError is caught by `except Exception` (main.py:155), which aborts
UnpackResult ==
    /\ main_pc = "unpack"
    /\ unpack_pair(parse_result).raised
    /\ main_calls' = Append(Append(main_calls, "parse_files"), "abort")
    /\ main_pc' = "exited"
    /\ exit_code' = 1
    /\ UNCHANGED <<storeVars, inputFrame, audit_table, next_subdir, processed,
                   parse_result, main_image_id, archive>>

\* except KeyboardInterrupt: cleanup(image_id, image_name, OUTPUT_PATH); sys.exit(0)
KeyboardInterrupt ==
    /\ main_pc \in {"parse_audit", "parse_audit_return", "parse_files", "unpack"}
    /\ \E outcome \in {"ok", "delete_error", "connect_error"} :
         \E r \in {cleanup(main_image_id, outcome)} :
            /\ images' = r.db.images
            /\ files' = r.db.files
            /\ file_hashes' = r.db.file_hashes
            /\ groups' = r.db.groups
            /\ links' = r.db.links
            /\ members' = r.db.members
            /\ archive' = r.archive
            /\ lastOp' = Op("delete_image", main_image_id, FALSE,
                            outcome # "ok", outcome, r.db.ret, <<>>)
    /\ main_calls' = Append(main_calls, "cleanup")
    /\ main_pc' = "exited"
    /\ exit_code' = 0
    /\ UNCHANGED <<nextImageId, nextFileId, nextGroupId, exists_has_join, ingesting,
                   inputFrame, audit_table, next_subdir, processed, parse_result,
                   main_image_id>>

InitMain == StoreCreated /\ ExifIdle /\ MainCalled /\ RaceIdle

NextMain ==
    \/ ParseAudit /\ UNCHANGED <<exifVars, raceVars>>
    \/ ParseAuditReturn /\ UNCHANGED <<exifVars, raceVars>>
    \/ ProcessSubdir /\ UNCHANGED <<exifVars, raceVars>>
    \/ ParseFilesReturn /\ UNCHANGED <<exifVars, raceVars>>
    \/ UnpackResult /\ UNCHANGED <<exifVars, raceVars>>
    \/ KeyboardInterrupt /\ UNCHANGED <<exifVars, raceVars>>

SpecMain == InitMain /\ [][NextMain]_vars

(***************************************************************************)
(* Vocabulary of the claims about the duplicate tables.                    *)
(***************************************************************************)
\* the file ids of an image that carry the hash (its hash-index entries)
FilesOf(image_id, file_hash) ==
    {fh.file_id : fh \in {x \in file_hashes : x.image_id = image_id /\ x.file_hash = file_hash}}

GroupsFor(file_hash) == {g \in groups : g.file_hash = file_hash}

LinkCount(group_id, image_id) ==
    CopiesIn([duplicate_group_id |-> group_id, image_id |-> image_id], links)

\* the number of DuplicateMember rows of a file, over all groups
MemberCount(file_id) ==
    BagCardinality([m \in {x \in Rows(members) : x.file_id = file_id} |-> members[m]])

\* one group for the hash, linked once to the image, and one membership,
\* in that group, for each of the image's files carrying the hash
Reconciled(image_id, file_hash) ==
    /\ Cardinality(GroupsFor(file_hash)) = 1
    /\ \A g \in GroupsFor(file_hash) :
          /\ LinkCount(g.id, image_id) = 1
          /\ \A f \in FilesOf(image_id, file_hash) :
                /\ MemberCount(f) = 1
                /\ CopiesIn([group_id |-> g.id, file_id |-> f], members) = 1

SharedHashes(image_id) == {h \in Hashes : Cardinality(FilesOf(image_id, h)) >= 2}

Calls == {lastOp.calls[k] : k \in 1..Len(lastOp.calls)}

\* C2: after an intra-image detect_duplicates run without store failure,
\* every hash shared by at least two files of the image has exactly one
\* group, linked exactly once to the image, and each of those files has
\* exactly one DuplicateMember row, in that group.
C2_OneGroupLinkAndMemberships ==
    (lastOp.op = "detect_duplicates" /\ ~lastOp.cross_image /\ ~lastOp.failed)
        => \A h \in SharedHashes(lastOp.image_id) : Reconciled(lastOp.image_id, h)

\* C1: two failure-free intra-image detect_duplicates runs for the same
\* image, one right after the other, leave every shared hash with exactly
\* one group, one link and one membership per file, and no store call of
\* the second run changes a row.
C1_SecondRunIsNoOp ==
    lastOp.streak = 2
        => /\ \A h \in SharedHashes(lastOp.image_id) : Reconciled(lastOp.image_id, h)
           /\ \A c \in Calls : ~c.changed

LinksOf(file_hash) ==
    [l \in {x \in Rows(links) : \E g \in GroupsFor(file_hash) : g.id = x.duplicate_group_id}
        |-> links[l]]

MembersOf(file_hash) ==
    [m \in {x \in Rows(members) : \E g \in GroupsFor(file_hash) : g.id = x.group_id}
        |-> members[m]]

\* the number of stored files carrying the hash, over all images
Carriers(file_hash) == Cardinality({fh \in file_hashes : fh.file_hash = file_hash})

\* C3: a detect_duplicates run for an image creates no group, no link and
\* no membership for a hash carried by fewer than two of the image's files,
\* and a hash carried by exactly one stored file has no group.
C3_SingletonHashNeverGrouped ==
    [][ /\ lastOp'.op = "detect_duplicates" =>
             \A h \in Hashes :
                Cardinality(FilesOf(lastOp'.image_id, h)) < 2 =>
                    /\ GroupsFor(h)' = GroupsFor(h)
                    /\ LinksOf(h)' = LinksOf(h)
                    /\ MembersOf(h)' = MembersOf(h)
        /\ \A h \in Hashes : Carriers(h)' = 1 => GroupsFor(h)' = {}
      ]_vars

\* a completed failure-free run that grouped one hash of an image which
\* also has a hash carried by one file only, left without a group
C3_Witness ==
    /\ lastOp.op = "detect_duplicates" /\ ~lastOp.failed /\ lastOp.outcome = "completed"
    /\ \E c \in Calls : c.fn = "insert_duplicate_group" /\ c.changed
    /\ \E h \in Hashes : /\ Cardinality(FilesOf(lastOp.image_id, h)) = 1
                         /\ Carriers(h) = 1
                         /\ GroupsFor(h) = {}

\* C4: image a, ingested earlier, has a hash h with at least two files,
\* reconciled; image b has one file with h; after a failure-free cross-image
\* detect_duplicates run for b, the one group for h is linked to both images
\* and holds one membership for each of their files carrying h.
C4_CrossImageJoinsGroup ==
    \A a \in images, b \in images, h \in Hashes :
        ( /\ a < b
          /\ lastOp.op = "detect_duplicates" /\ lastOp.image_id = b
          /\ lastOp.cross_image /\ ~lastOp.failed
          /\ Cardinality(FilesOf(a, h)) >= 2 /\ Reconciled(a, h)
          /\ Cardinality(FilesOf(b, h)) = 1 )
        => /\ Cardinality(GroupsFor(h)) = 1
           /\ \A g \in GroupsFor(h) :
                 /\ LinkCount(g.id, a) = 1
                 /\ LinkCount(g.id, b) = 1
                 /\ \A f \in FilesOf(a, h) \cup FilesOf(b, h) :
                       CopiesIn([group_id |-> g.id, file_id |-> f], members) = 1

\* C5: at most one group exists per file hash, and an insert_duplicate_group
\* for a hash that already has a group is rejected (-1) and adds no group.
C5_OneGroupPerHash ==
    /\ \A g1 \in groups, g2 \in groups : g1.file_hash = g2.file_hash => g1 = g2
    /\ \A c \in Calls :
          (c.fn = "insert_duplicate_group" /\ c.had) => (c.ret = -1 /\ ~c.changed)

\* an insert_duplicate_group was attempted for a hash that had a group
C5_Witness ==
    /\ \E c \in Calls : c.fn = "insert_duplicate_group" /\ c.had /\ ~c.fail
    /\ groups # {}

\* C6: a file has at most one DuplicateMember row over all groups, and an
\* insert_duplicate_member for a file that already has one adds no row and
\* leaves the stored memberships as they were.
C6_OneMembershipPerFile ==
    /\ \A f \in 1..MaxFiles : MemberCount(f) <= 1
    /\ \A c \in Calls :
          (c.fn = "insert_duplicate_member" /\ c.had) => ~c.changed

\* an insert_duplicate_member was attempted, with a linked group found and
\* no store failure, for a file that already had its membership
C6_Witness ==
    \E c \in Calls : /\ c.fn = "insert_duplicate_member" /\ c.had /\ ~c.fail
                     /\ c.ret = -1
                     /\ MemberCount(c.file_id) = 1

\* C7: a (group, image) pair has at most one association row, however many
\* of the image's files are members of the group, and a
\* link_duplicate_group_to_image for a pair already linked adds no row and,
\* unless the store fails, returns 1.
C7_OneLinkPerGroupAndImage ==
    /\ \A l \in Rows(links) : links[l] = 1
    /\ \A c \in Calls :
          (c.fn = "link_duplicate_group_to_image" /\ c.had)
             => (~c.changed /\ (~c.fail => c.ret = 1))

\* link_duplicate_group_to_image was called for a pair already linked, the
\* image having two member files in the group
C7_Witness ==
    \E c \in Calls :
       /\ c.fn = "link_duplicate_group_to_image" /\ c.had /\ ~c.fail /\ c.ret = 1
       /\ \E g \in GroupsFor(c.file_hash) :
             /\ LinkCount(g.id, lastOp.image_id) = 1
             /\ Cardinality({m \in Rows(members) :
                                /\ m.group_id = g.id
                                /\ m.file_id \in FilesOf(lastOp.image_id, c.file_hash)}) >= 2

(***************************************************************************)
(* Vocabulary of the claims about extract_exiftool_data.                   *)
(***************************************************************************)
InputFiles == {file_paths[k] : k \in 1..Len(file_paths)}
InputNames == {PathName(f) : f \in InputFiles}
BatchStarts == {i \in 0..(Len(file_paths) - 1) : i % BatchSize = 0}
BatchFiles(i) == {Batch(i)[k] : k \in 1..Len(Batch(i))}
ProbeLog == {probe_log[k] : k \in 1..Len(probe_log)}
Returned == ex_pc \in {"returned", "built"}
NotExiftool == {o.file_name : o \in {x \in file_objects : ~x.is_exiftool}}

\* C8: when extract_exiftool_data has returned, every file name of the
\* input list has an entry in the metadata map, whatever batch probes and
\* single-file probes failed and whatever the length of the list.
C8_EveryInputNameHasAnEntry ==
    Returned => InputNames \subseteq DOMAIN subdir_files

\* returned from a list that is longer than one batch and no multiple of the
\* batch size, after a batch failure with a single-file success and a fallback
C8_Witness ==
    /\ ex_pc = "returned"
    /\ Len(file_paths) > BatchSize /\ Len(file_paths) % BatchSize # 0
    /\ \E e \in ProbeLog : e.kind = "batch" /\ ~e.ok
    /\ \E e \in ProbeLog : e.kind = "single" /\ e.ok
    /\ \E e \in ProbeLog : e.kind = "fallback" /\ e.ok
    /\ is_python # {}

\* C9: for a batch with exactly one file ExifTool fails on, after the
\* return the fallback set holds, of that batch's names, exactly that file's
\* (and is exactly that name when no other batch has such a file), every
\* other file of the batch has the record ExifTool returned, and of the
\* batch's File objects only that file's is built with is_exiftool = False.
C9_OnlyTheFailingFileFallsBack ==
    \A i \in BatchStarts :
       (Returned /\ Cardinality(BatchFiles(i) \cap corrupt) = 1) =>
          LET names == {PathName(f) : f \in BatchFiles(i)}
              failing == {PathName(f) : f \in BatchFiles(i) \cap corrupt}
          IN /\ is_python \cap names = failing
             /\ corrupt \subseteq BatchFiles(i) => is_python = failing
             /\ \A f \in BatchFiles(i) \ corrupt :
                   subdir_files[PathName(f)] =
                      IF ex_pc = "built" THEN Popped(ProbeRecord(f)) ELSE ProbeRecord(f)
             /\ ex_pc = "built" =>
                   /\ NotExiftool \cap names = failing
                   /\ corrupt \subseteq BatchFiles(i) => NotExiftool = failing

\* the File objects are built from a list whose only failing file sits in
\* a full batch, and one object has is_exiftool = False
C9_Witness ==
    /\ ex_pc = "built"
    /\ Cardinality(corrupt) = 1
    /\ \E i \in BatchStarts : /\ Cardinality(BatchFiles(i)) = BatchSize
                              /\ corrupt \subseteq BatchFiles(i)
    /\ Cardinality(NotExiftool) = 1
    /\ Cardinality(file_objects) = Len(file_paths)
    /\ Len(file_paths) > BatchSize

\* C10: when every batch probe succeeded, no single-file probe and no local
\* fallback was run, the fallback set is empty, and on return the entry of
\* every input file is the record ExifTool returned for it.
C10_AllBatchesSucceed ==
    (Returned /\ \A e \in ProbeLog : e.kind = "batch" => e.ok) =>
        /\ \A e \in ProbeLog : e.kind = "batch"
        /\ is_python = {}
        /\ DOMAIN subdir_files = InputNames
        /\ ex_pc = "returned" =>
              \A f \in InputFiles : subdir_files[PathName(f)] = ProbeRecord(f)

\* returned after at least two batch probes, all successful
C10_Witness ==
    /\ ex_pc = "returned"
    /\ Len(file_paths) > BatchSize
    /\ Cardinality({e \in ProbeLog : e.kind = "batch" /\ e.ok}) >= 2
    /\ \A e \in ProbeLog : e.kind = "batch" => e.ok

(***************************************************************************)
(* Vocabulary of the claims about a run of main.                           *)
(***************************************************************************)
MainCalls == {main_calls[k] : k \in 1..Len(main_calls)}
Subdirs == {listing[k] : k \in 1..Len(listing)}
Taken == 1..Len(processed)
\* the names of the files for which parse_files built a File object
BuiltNames == UNION {{f.name : f \in disk[processed[k].subdir]} :
                        k \in {j \in Taken : processed[j].outcome # "extract_error"}}

\* C11: when insert_files failed for a subdirectory, the run ends with the
\* image's record, all its File and FileHash rows and its archive directory
\* deleted.
C11_FailedIngestionLeavesNothing ==
    (main_pc = "exited" /\ \E k \in Taken : processed[k].outcome = "insert_error")
        => /\ main_image_id \notin images
           /\ ~(\E f \in files : f.image_id = main_image_id)
           /\ ~(\E fh \in file_hashes : fh.image_id = main_image_id)
           /\ archive = {}

\* C15: when parse_files has returned True and main has run to its exit,
\* main has called detect_duplicates and after it generate_report_data; and
\* detect_duplicates is called only after parse_files returned True.
C15_DetectThenReportAfterParsing ==
    /\ (main_pc = "exited" /\ parse_result = "True" /\ "cleanup" \notin MainCalls)
          => \E i \in 1..Len(main_calls), j \in 1..Len(main_calls) :
                /\ i < j
                /\ main_calls[i] = "detect_duplicates"
                /\ main_calls[j] = "generate_report_data"
    /\ "detect_duplicates" \in MainCalls => parse_result = "True"

\* C18: parse_files takes the subdirectories one at a time in ascending
\* path order, skipping none; a subdirectory that fails stores no row, is
\* the last one taken, and makes parse_files return False; until a cleanup
\* the rows stored for the earlier subdirectories are all still there.
C18_SubdirsInOrderFailureStops ==
    /\ \A j \in Taken, k \in Taken : j < k => processed[j].subdir < processed[k].subdir
    /\ \A k \in Taken, d \in Subdirs :
          d < processed[k].subdir => \E j \in Taken : j < k /\ processed[j].subdir = d
    /\ \A k \in Taken : k < Len(processed) => processed[k].ok
    /\ \A k \in Taken :
          ~processed[k].ok => /\ processed[k].stored = {}
                              /\ main_pc # "parse_files"
                              /\ parse_result = "False"
    /\ "cleanup" \notin MainCalls =>
          /\ {f.id : f \in files} = UNION {processed[k].stored : k \in Taken}
          /\ {fh.file_id : fh \in file_hashes} = {f.id : f \in files}
          /\ \A k \in Taken :
                processed[k].ok =>
                   Cardinality(processed[k].stored) = Cardinality(disk[processed[k].subdir])

\* three subdirectories listed out of order; the first stored its rows, the
\* second failed in insert_files, the third was never taken
C18_Witness ==
    /\ Len(listing) = 3 /\ listing # sorted_subdirs(listing)
    /\ Len(processed) = 2
    /\ processed[1].ok /\ processed[1].stored # {}
    /\ processed[2].outcome = "insert_error" /\ disk[processed[2].subdir] # {}
    /\ processed[1].stored \subseteq {f.id : f \in files}
    /\ parse_result = "False"
    /\ main_pc = "exited"

\* C20: building the File objects removes each built file's entry from the
\* audit table, so that once every subdirectory is processed the table main
\* holds for reporting lists exactly the audit names found in no subdirectory.
C20_AuditTableKeepsOnlyMissingFiles ==
    (main_pc \in {"unpack", "exited"} /\ parse_result = "True")
        => audit_table = audit_listed \ BuiltNames

(***************************************************************************)
(* Claims about the failure behaviour and the history of the duplicate     *)
(* tables.                                                                 *)
(***************************************************************************)
WriteCalls == {"insert_duplicate_group", "link_duplicate_group_to_image",
               "insert_duplicate_member"}

\* C13: a detect_duplicates run in which insert_duplicate_group,
\* link_duplicate_group_to_image or insert_duplicate_member failed in the
\* store does not end as a completed run: the failing call is the last one
\* made and the run's outcome is not "completed".
C13_WriteFailureIsReported ==
    lastOp.op = "detect_duplicates"
        => \A k \in 1..Len(lastOp.calls) :
              (lastOp.calls[k].fn \in WriteCalls /\ lastOp.calls[k].fail)
                 => /\ k = Len(lastOp.calls)
                    /\ lastOp.outcome # "completed"

\* C16: after a detect_duplicates run, a hash for which the run wrote any
\* row has all of its rows: one group, the link to the image and one
\* membership per file of the image carrying it.
C16_ReconcileHashAllOrNone ==
    lastOp.op = "detect_duplicates"
        => \A h \in SharedHashes(lastOp.image_id) :
              (\E c \in Calls : c.file_hash = h /\ c.changed)
                 => Reconciled(lastOp.image_id, h)

\* C19: a detect_duplicates step removes no DuplicateGroup, no group-image
\* link and no DuplicateMember: each row stored before the step is stored
\* after it.
C19_DetectNeverRemovesRows ==
    [][lastOp'.op = "detect_duplicates"
          => /\ groups \subseteq groups'
             /\ links \sqsubseteq links'
             /\ members \sqsubseteq members']_vars

\* a run that found the group stored and called insert_duplicate_group
\* again (its check failed), with links and memberships already there
C19_Witness ==
    /\ lastOp.op = "detect_duplicates"
    /\ \E c \in Calls : c.fn = "insert_duplicate_group" /\ c.had
    /\ groups # {}
    /\ links # EmptyBag
    /\ members # EmptyBag

(***************************************************************************)
(* crud/file.py: insert_files as a function of its arguments.  The batch   *)
(* is any list of File objects, with or without a hash, for any image id,  *)
(* stored or not (the foreign key rejects the commit).                     *)
(***************************************************************************)
FileHashValues == Hashes \cup {""}

InsertFilesBatch ==
    \E image_id \in ImageIds, n \in 0..2, fail \in BOOLEAN :
      \E batch \in [1..n -> FileHashValues] :
        /\ nextFileId + n - 1 <= MaxFiles
        /\ \E r \in {insert_files(image_id, batch, fail)} :
              /\ files' = r.files
              /\ file_hashes' = r.file_hashes
              /\ nextFileId' = r.nextFileId
              /\ lastOp' = Op("insert_files", image_id, FALSE, fail, "", r.ret,
                              <<[fn |-> "insert_files", batch |-> batch,
                                 first_id |-> nextFileId]>>)
        /\ UNCHANGED <<images, nextImageId, groups, nextGroupId, links, members,
                       exists_has_join, ingesting>>

InitFiles == StoreCreated /\ ExifIdle /\ MainIdle /\ RaceIdle

NextFiles ==
    \/ InsertImage /\ UNCHANGED <<exifVars, mainVars, raceVars>>
    \/ InsertFilesBatch /\ UNCHANGED <<exifVars, mainVars, raceVars>>

SpecFiles == InitFiles /\ [][NextFiles]_vars

\* the File rows of the batch of the insert_files call that lastOp records
BatchRows(op) ==
    LET call == op.calls[1]
    IN {[id |-> call.first_id + i - 1, image_id |-> op.image_id, file_hash |-> call.batch[i],
         is_duplicate |-> FALSE] :
           i \in 1..Len(call.batch)}

\* C17: an insert_files step that returns 1 stores every File of the batch
\* and, for each File of the batch with a non-empty hash, exactly one
\* FileHash entry, carrying the file's id, hash and image id; a step whose
\* commit fails returns -1; a step that returns -1 stores no File and no
\* FileHash; rows stored before the step stay.
C17_InsertFilesIsAtomic ==
    [][lastOp'.op = "insert_files"
          => /\ lastOp'.ret \in {1, -1}
             /\ lastOp'.failed => lastOp'.ret = -1
             /\ lastOp'.ret = 1 =>
                   /\ files' = files \cup BatchRows(lastOp')
                   /\ BatchRows(lastOp') \cap files = {}
                   /\ file_hashes \subseteq file_hashes'
                   /\ \A f \in BatchRows(lastOp') :
                         f.file_hash # "" =>
                            {fh \in file_hashes' : fh.file_id = f.id}
                               = {[file_id |-> f.id, file_hash |-> f.file_hash,
                                   image_id |-> f.image_id]}
             /\ lastOp'.ret = -1 =>
                   /\ files' = files
                   /\ file_hashes' = file_hashes]_vars

\* a batch of one File with a hash and one without, stored after an earlier
\* batch
C17_Witness ==
    /\ lastOp.op = "insert_files"
    /\ lastOp.ret = 1
    /\ \E f \in BatchRows(lastOp), g \in BatchRows(lastOp) :
          f.file_hash # "" /\ g.file_hash = ""
    /\ files \ BatchRows(lastOp) # {}
    /\ BatchRows(lastOp) \subseteq files

(***************************************************************************)
(* crud/image.py: delete_image over stores in which two images each hold   *)
(* two copies of a file.                                                   *)
(***************************************************************************)
PairStarts == {1, 3}   \* the file ids at which a pair of copies is stored

\* parse_files -> insert_files for a subdirectory holding two copies of one file
InsertFilePair ==
    \E image_id \in images \cap {ingesting}, file_hash \in Hashes, fail \in BOOLEAN :
      /\ nextFileId \in PairStarts
      /\ \E r \in {insert_files(image_id, <<file_hash, file_hash>>, fail)} :
            /\ files' = r.files
            /\ file_hashes' = r.file_hashes
            /\ nextFileId' = r.nextFileId
            /\ lastOp' = Op("insert_files", image_id, FALSE, fail, "", r.ret, <<>>)
      /\ UNCHANGED <<images, nextImageId, groups, nextGroupId, links, members,
                     exists_has_join, ingesting>>

NextDelete ==
    \/ InsertImage /\ UNCHANGED <<exifVars, mainVars, raceVars>>
    \/ InsertFilePair /\ UNCHANGED <<exifVars, mainVars, raceVars>>
    \/ DetectDuplicates /\ UNCHANGED <<exifVars, mainVars, raceVars>>
    \/ DeleteImage /\ UNCHANGED <<exifVars, mainVars, raceVars>>

SpecDelete == Init /\ [][NextDelete]_vars

\* the ids of the files of an image
FileIdsOf(image_id) == {f.id : f \in {x \in files : x.image_id = image_id}}

\* the member rows of a group, as a bag
MembersIn(bag, group_id) ==
    [m \in {x \in Rows(bag) : x.group_id = group_id} |-> bag[m]]

\* the link rows of a group, as a bag
LinksIn(bag, group_id) ==
    [l \in {x \in Rows(bag) : x.duplicate_group_id = group_id} |-> bag[l]]

\* C14: a successful delete_image step keeps a group exactly when a member
\* row of a file of another image remains; a kept group loses the deleted
\* image's link and the memberships of its files and nothing else; no new
\* group appears and no group without a member row is left.
C14_GroupDeletedIffNoMemberRemains ==
    [][(lastOp'.op = "delete_image" /\ lastOp'.ret = 1)
          => /\ groups' \subseteq groups
             /\ \A g \in groups :
                   g \in groups' <=>
                      \E m \in Rows(members) :
                         m.group_id = g.id /\ m.file_id \notin FileIdsOf(lastOp'.image_id)
             /\ \A g \in groups' :
                   /\ MembersIn(members', g.id)
                         = [m \in {x \in Rows(members) :
                                      /\ x.group_id = g.id
                                      /\ x.file_id \notin FileIdsOf(lastOp'.image_id)}
                               |-> members[m]]
                   /\ LinksIn(links', g.id)
                         = [l \in {x \in Rows(links) :
                                      /\ x.duplicate_group_id = g.id
                                      /\ x.image_id # lastOp'.image_id}
                               |-> links[l]]
             /\ \A g \in groups' : \E m \in Rows(members') : m.group_id = g.id
             /\ \A m \in Rows(members') : \E g \in groups' : g.id = m.group_id
             /\ \A l \in Rows(links') : \E g \in groups' : g.id = l.duplicate_group_id]_vars

\* a delete that took two member rows from a group that keeps the two of
\* the other image and is still stored, linked to that image alone
C14_Witness ==
    /\ lastOp.op = "delete_image"
    /\ lastOp.ret = 1
    /\ \E c \in Calls :
          /\ c.cascaded = 2 /\ c.remaining = 2 /\ ~c.deleted
          /\ \E g \in groups :
                /\ g.id = c.group_id
                /\ BagCardinality(MembersIn(members, g.id)) = 2
                /\ BagCardinality(LinksIn(links, g.id)) = 1

(***************************************************************************)
(* parser/duplicates.py: two detect_duplicates runs, each with its own     *)
(* session, for two stored images.  Every store call of a run is one       *)
(* committed transaction, so the runs interleave call by call.  Each image *)
(* holds two copies of one file; a run is at "start", "group", "link",     *)
(* "members" (with the file ids still to insert) or "done".                *)
(***************************************************************************)
Runs == ImageIds

\* the hash of the two copies an image holds
race_hash(image_id) ==
    CHOOSE h \in Hashes : \E fh \in file_hashes : fh.image_id = image_id /\ fh.file_hash = h

\* the branch a run takes after its group insert: the returned int is
\* dropped, so the link call follows whether the commit was rejected or not
after_insert_stops_when_rejected(ret) == IF ret < 0 THEN "done" ELSE "link"

\* `if not exists:` insert_duplicate_group(...); link_duplicate_group_to_image(...)
after_insert(ret) == "link"

\* both images stored with their files, no group yet, no run started
RaceReady ==
    /\ images = ImageIds
    /\ nextImageId = 3
    /\ \E h \in Hashes :
          /\ files = {[id |-> 1, image_id |-> 1, file_hash |-> "H", is_duplicate |-> FALSE],
                      [id |-> 2, image_id |-> 1, file_hash |-> "H", is_duplicate |-> FALSE],
                      [id |-> 3, image_id |-> 2, file_hash |-> h, is_duplicate |-> FALSE],
                      [id |-> 4, image_id |-> 2, file_hash |-> h, is_duplicate |-> FALSE]}
          /\ file_hashes = {[file_id |-> 1, file_hash |-> "H", image_id |-> 1],
                            [file_id |-> 2, file_hash |-> "H", image_id |-> 1],
                            [file_id |-> 3, file_hash |-> h, image_id |-> 2],
                            [file_id |-> 4, file_hash |-> h, image_id |-> 2]}
    /\ nextFileId = 5
    /\ groups = {}
    /\ nextGroupId = 1
    /\ links = EmptyBag
    /\ members = EmptyBag
    /\ exists_has_join \in BOOLEAN
    /\ ingesting = 0
    /\ lastOp = [op |-> "insert_files", image_id |-> 2, cross_image |-> FALSE,
                 failed |-> FALSE, outcome |-> "", ret |-> 1, calls |-> <<>>, streak |-> 0]
    /\ race_pc = [p \in Runs |-> [at |-> "start", todo |-> <<>>]]
    /\ race_seen = [p \in Runs |-> [exists |-> FALSE, linked |-> FALSE, raised |-> FALSE,
                                    checked |-> FALSE, failed |-> FALSE, insert_ret |-> 0]]

raceFrame == <<images, nextImageId, files, file_hashes, nextFileId, exists_has_join,
               ingesting, lastOp>>

RaceStore(db) ==
    /\ groups' = db.groups
    /\ nextGroupId' = db.nextGroupId
    /\ links' = db.links
    /\ members' = db.members

\* read_file_hashes_for_image, read_files_with_hash, hash_groups, and
\* check_duplicate_group_for_image for the image's shared hash
RaceCheck(p) ==
    /\ race_pc[p].at = "start"
    /\ \E fail \in BOOLEAN :
         \E c \in {check_duplicate_group_for_image(DupState, p, race_hash(p), fail)} :
            /\ race_seen' = [race_seen EXCEPT ![p] =
                                [@ EXCEPT !.exists = c.exists, !.linked = c.linked,
                                          !.raised = c.raised, !.checked = TRUE,
                                          !.failed = fail]]
            /\ race_pc' = [race_pc EXCEPT ![p] =
                              [at |-> IF c.raised THEN "done"
                                      ELSE IF ~c.exists THEN "group"
                                      ELSE IF ~c.linked THEN "link"
                                      ELSE "members",
                               todo |-> SetToSeq(hash_groups(read_file_hashes_for_image(p, FALSE),
                                                             race_hash(p)))]]
    /\ UNCHANGED <<raceFrame, groups, nextGroupId, links, members>>

\* insert_duplicate_group(DuplicateGroup(file_hash=file_hash), session)
RaceInsertGroup(p) ==
    /\ race_pc[p].at = "group"
    /\ \E fail \in BOOLEAN :
         \E r \in {insert_duplicate_group(DupState, race_hash(p), fail)} :
            /\ RaceStore(r.db)
            /\ race_seen' = [race_seen EXCEPT ![p] =
                                [@ EXCEPT !.insert_ret = r.ret, !.failed = @ \/ fail]]
            /\ race_pc' = [race_pc EXCEPT ![p] = [@ EXCEPT !.at = after_insert(r.ret)]]
    /\ UNCHANGED raceFrame

\* link_duplicate_group_to_image(file_hash, image_id, session)
RaceLink(p) ==
    /\ race_pc[p].at = "link"
    /\ \E fail \in BOOLEAN :
         \E r \in {link_duplicate_group_to_image(DupState, race_hash(p), p, fail)} :
            /\ RaceStore(r.db)
            /\ race_seen' = [race_seen EXCEPT ![p] = [@ EXCEPT !.failed = @ \/ fail]]
            /\ race_pc' = [race_pc EXCEPT ![p] = [@ EXCEPT !.at = "members"]]
    /\ UNCHANGED raceFrame

\* one iteration of `for file_id in file_ids: insert_duplicate_member(...)`
RaceInsertMember(p) ==
    /\ race_pc[p].at = "members"
    /\ race_pc[p].todo # <<>>
    /\ \E fail \in BOOLEAN :
         \E r \in {insert_duplicate_member(DupState, race_hash(p), p, Head(race_pc[p].todo), fail)} :
            /\ RaceStore(r.db)
            /\ race_seen' = [race_seen EXCEPT ![p] = [@ EXCEPT !.failed = @ \/ fail]]
            /\ race_pc' = [race_pc EXCEPT ![p] =
                              [at |-> IF Tail(@.todo) = <<>> THEN "done" ELSE "members",
                               todo |-> Tail(@.todo)]]
    /\ UNCHANGED raceFrame

InitRace == RaceReady /\ ExifIdle /\ MainIdle

NextRace ==
    \/ \E p \in Runs : RaceCheck(p) /\ UNCHANGED <<exifVars, mainVars>>
    \/ \E p \in Runs : RaceInsertGroup(p) /\ UNCHANGED <<exifVars, mainVars>>
    \/ \E p \in Runs : RaceLink(p) /\ UNCHANGED <<exifVars, mainVars>>
    \/ \E p \in Runs : RaceInsertMember(p) /\ UNCHANGED <<exifVars, mainVars>>

SpecRace == InitRace /\ [][NextRace]_vars

\* both runs are over, for the same hash, each saw no group in its check,
\* and no store call of either failed for infrastructural reasons
BothSawNoGroup ==
    /\ \A p \in Runs : race_pc[p].at = "done"
    /\ \A p \in Runs : /\ race_seen[p].checked
                       /\ ~race_seen[p].exists
                       /\ ~race_seen[p].raised
                       /\ ~race_seen[p].failed
    /\ race_hash(1) = race_hash(2)

\* C12: when two runs for different images reconciled the same hash, both
\* having seen no group, one group insert was committed and the other
\* rejected, and the store holds exactly one group for the hash, linked
\* once to each image, with one membership in it for each file of both.
C12_RaceLeavesOneSharedGroup ==
    BothSawNoGroup
        => /\ {race_seen[p].insert_ret : p \in Runs} = {1, -1}
           /\ \A p \in Runs : Reconciled(p, race_hash(p))
           /\ Cardinality(groups) = 1
           /\ BagCardinality(links) = 2
           /\ BagCardinality(members) = 4

\* the race has happened: both runs checked before either inserted, and
\* the second run's insert was rejected
C12_Witness ==
    /\ BothSawNoGroup
    /\ race_seen[2].insert_ret = -1
    /\ race_seen[1].insert_ret = 1
    /\ Cardinality(groups) = 1

(***************************************************************************)
(* Claims about hashing and archiving in a run of main.                    *)
(***************************************************************************)
\* C21: a subdirectory in which hash_and_store could not open a file is the
\* last one parse_files takes: it stores no row, parse_files returns False,
\* and until a cleanup the stored rows are those of the subdirectories
\* taken before it.
C21_UnreadableFileFailsIngestion ==
    \A k \in Taken :
       processed[k].outcome = "hash_error"
          => /\ k = Len(processed)
             /\ ~processed[k].ok
             /\ processed[k].stored = {}
             /\ parse_result = "False"
             /\ main_pc # "parse_files"
             /\ "cleanup" \notin MainCalls =>
                   {f.id : f \in files} = UNION {processed[j].stored : j \in 1..(k - 1)}

\* the second of three subdirectories holds a file that cannot be opened;
\* the first one's rows are stored, the third was never taken
C21_Witness ==
    /\ Len(listing) = 3
    /\ Len(processed) = 2
    /\ processed[1].ok /\ processed[1].stored # {}
    /\ processed[2].outcome = "hash_error"
    /\ disk[processed[2].subdir] # {}
    /\ main_pc = "exited"
    /\ "cleanup" \notin MainCalls

(***************************************************************************)
(* Claims about the built File objects.                                    *)
(***************************************************************************)
\* an extension lower-cased and taken through the alias table
\* (jpeg -> jpg, tiff -> tif, html -> htm)
NormalizedExtension(ext) ==
    CASE ext \in {"jpg", "JPG", "jpeg", "JPEG"} -> "jpg"
      [] ext \in {"tif", "TIF", "tiff", "TIFF"} -> "tif"
      [] ext \in {"htm", "HTM", "html", "HTML"} -> "htm"
      [] ext \in {"png", "PNG"} -> "png"
      [] ext \in {"txt", "TXT"} -> "txt"
      [] ext \in {"pdf", "PDF"} -> "pdf"
      [] OTHER -> ext

\* C24: every File object built has its extension-mismatch flag set exactly
\* when the suffix of its name and its recorded (probe-reported) extension
\* differ after normalization.
C24_MismatchFlagComparesExtensions ==
    \A o \in file_objects :
       o.file_extension_mismatch
          <=> NormalizedExtension(Suffix(o.file_name)) # NormalizedExtension(o.file_extension)

\* the extensions, in either case, of the archivable set
Archivable == {"jpg", "JPG", "jpeg", "JPEG", "png", "PNG", "gif", "GIF",
               "webp", "WEBP", "svg", "SVG"}

\* the files hash_and_store handled in the k-th subdirectory taken
Handled(k) == {f \in disk[processed[k].subdir] : f.name \in DOMAIN processed[k].paths}

\* C23: a file handled by hash_and_store has a recorded path exactly when
\* copying is enabled and its extension is an archivable one in either
\* case; the path is output_path/image_name/<lower-cased extension>/<name>
\* and, until a cleanup, the copy is there; with copying disabled no path
\* is recorded and nothing is written.
C23_PathIffCopiedImage ==
    /\ \A k \in Taken : \A f \in Handled(k) :
          /\ processed[k].paths[f.name] # <<>> <=> (copy_images /\ f.ext \in Archivable)
          /\ processed[k].paths[f.name] # <<>> =>
                /\ processed[k].paths[f.name]
                      = <<"output_path", "image_name", lower(f.ext), f.name>>
                /\ lower(f.ext) \in image_extensions
                /\ "cleanup" \notin MainCalls => processed[k].paths[f.name] \in archive
    /\ \A c \in archive : \E k \in Taken : \E f \in Handled(k) : processed[k].paths[f.name] = c
    /\ ~copy_images => archive = {}

\* with copying enabled, one subdirectory held a JPG and a TXT file: the
\* first has a path and a copy, the second neither
C23_Witness ==
    /\ copy_images
    /\ "cleanup" \notin MainCalls
    /\ \E k \in Taken : \E f \in Handled(k), g \in Handled(k) :
          /\ processed[k].ok
          /\ f.ext = "JPG" /\ processed[k].paths[f.name] \in archive
          /\ g.ext = "TXT" /\ processed[k].paths[g.name] = <<>>
    /\ Cardinality(archive) = 1

(***************************************************************************)
(* Claims about files without content.                                     *)
(***************************************************************************)
\* the files of an image that hold no byte: their hash is the digest of no input
EmptyFilesOf(image_id) ==
    {f \in files : f.image_id = image_id /\ f.file_hash = sha256_hexdigest("")}

\* C22: the digest of a 0-byte file is not empty, every stored 0-byte file
\* has its FileHash entry, and after a failure-free intra-image
\* detect_duplicates run for an image with two or more 0-byte files these
\* files are the members of one group for that digest, linked to the image.
C22_EmptyFilesAreGrouped ==
    /\ sha256_hexdigest("") # ""
    /\ \A f \in files :
          f.file_hash = sha256_hexdigest("")
             => [file_id |-> f.id, file_hash |-> f.file_hash, image_id |-> f.image_id]
                   \in file_hashes
    /\ (/\ lastOp.op = "detect_duplicates" /\ ~lastOp.cross_image /\ ~lastOp.failed
        /\ Cardinality(EmptyFilesOf(lastOp.image_id)) >= 2)
          => Reconciled(lastOp.image_id, sha256_hexdigest(""))

(***************************************************************************)
(* Claims about what detect_duplicates and the write functions leave alone.*)
(***************************************************************************)
\* C25: a detect_duplicates step leaves every File row (flag and hash
\* included), every FileHash row and every Image row as it was.
C25_DetectLeavesFilesAlone ==
    [][lastOp'.op = "detect_duplicates"
          => /\ files' = files
             /\ file_hashes' = file_hashes
             /\ images' = images]_vars

\* a run that wrote a group, a link and memberships for files of the image
C25_Witness ==
    /\ lastOp.op = "detect_duplicates"
    /\ \E c \in Calls : c.fn = "insert_duplicate_member" /\ c.changed
    /\ \A f \in files : ~f.is_duplicate
    /\ \E f \in files : MemberCount(f.id) = 1
C26_MembershipImpliesLink ==
    /\ \A m \in Rows(members) :
          \E f \in files : f.id = m.file_id /\ LinkCount(m.group_id, f.image_id) >= 1
    /\ lastOp.op = "detect_duplicates" =>
          \A c \in {x \in Calls : x.fn = "insert_duplicate_member"} :
             LET linked == read_duplicate_group_for_image_and_hash(
                              DupState, c.file_hash, lastOp.image_id)
             IN /\ c.ret = 0 <=> linked = {}
                /\ c.ret = 0 => ~c.changed
                /\ c.changed =>
                      /\ c.ret = 1
                      /\ \E g \in linked :
                            CopiesIn([group_id |-> g.id, file_id |-> c.file_id], members) = 1

\* memberships are stored, and the last run's link failed, so that its
\* insert_duplicate_member calls found no linked group
C26_Witness ==
    /\ lastOp.op = "detect_duplicates"
    /\ members # EmptyBag
    /\ \E c \in Calls : c.fn = "link_duplicate_group_to_image" /\ c.fail
    /\ \E c \in Calls : c.fn = "insert_duplicate_member" /\ c.ret = 0
    /\ \E g \in groups : LinksIn(links, g.id) = EmptyBag
\* C27: after a failure-free intra-image detect_duplicates run, a hash
\* shared by two or more files of the image whose group was already stored
\* before the run (left by an earlier run that failed after creating it)
\* has that one group, the link to the image and one membership per file,
\* and the run created no group for it.
C27_LaterRunCompletesPartialGroup ==
    (lastOp.op = "detect_duplicates" /\ ~lastOp.cross_image /\ ~lastOp.failed)
        => \A h \in SharedHashes(lastOp.image_id) :
              (/\ GroupsFor(h) # {}
               /\ ~(\E c \in Calls : /\ c.fn = "insert_duplicate_group"
                                     /\ c.file_hash = h /\ c.changed))
                 => Reconciled(lastOp.image_id, h)

\* C29: a call of insert_duplicate_group, link_duplicate_group_to_image or
\* insert_duplicate_member that returned -1 changed no row, and a
\* delete_image step that returned -1 leaves every table as it was.
C29_FailedWriteChangesNothing ==
    [][/\ lastOp'.op = "detect_duplicates" =>
             \A k \in 1..Len(lastOp'.calls) :
                (lastOp'.calls[k].fn \in WriteCalls /\ lastOp'.calls[k].ret = -1)
                   => ~lastOp'.calls[k].changed
       /\ (lastOp'.op = "delete_image" /\ lastOp'.ret = -1) =>
             /\ images' = images
             /\ files' = files
             /\ file_hashes' = file_hashes
             /\ groups' = groups
             /\ links' = links
             /\ members' = members]_vars

\* a run in which the commit of the link failed and returned -1, after the
\* group had been stored
C29_Witness ==
    /\ lastOp.op = "detect_duplicates"
    /\ \E c \in Calls : /\ c.fn = "link_duplicate_group_to_image"
                        /\ c.fail /\ c.ret = -1
    /\ groups # {}
    /\ links = EmptyBag

(***************************************************************************)
(* Claims about an interrupted run of main.                                *)
(***************************************************************************)
\* C30: when a KeyboardInterrupt ended the run and cleanup met no failure
\* of its own, the image the run stored is gone with its files, hash
\* entries and memberships, and so is its output directory; the store,
\* empty when the run began, is empty again.
C30_InterruptRemovesTheImage ==
    (main_pc = "exited" /\ "cleanup" \in MainCalls /\ lastOp.outcome = "ok")
        => /\ images = {}
           /\ files = {}
           /\ file_hashes = {}
           /\ members = EmptyBag
           /\ archive = {}

====
